---------------------------- MODULE Spec2Model ----------------------------
(***************************************************************************)
(* A model of imaging/png.py (class PngFile): the container that maps a    *)
(* file, caches its first eight bytes, decodes one chunk at a byte offset  *)
(* (extract_chunk) and walks the chunks after the signature                *)
(* (process_chunks) under a strict or a lenient failure policy.            *)
(*                                                                         *)
(* Bytes are the integers 0..255, byte strings are sequences of bytes.     *)
(* The mmap object is a record [data, pos]; Python's None is the record    *)
(* None.  An exception that leaves a method is recorded in `last`.         *)
(***************************************************************************)
EXTENDS Integers, Sequences, FiniteSets, TLC

VARIABLES
    file,         \* the bytes of the file at the path given to load_from_file
    strict,       \* self.strict
    mmap,         \* self.mmap: None or [data, pos]
    raw,          \* self.raw
    size,         \* self.size
    file_header,  \* self.file_header
    chunks,       \* self.chunks
    pc,           \* "idle", or "loop" while process_chunks is in its while loop
    walks,        \* number of process_chunks calls made so far
    last          \* the last call: its name, its arguments, its outcome, and the
                  \* length of self.chunks when it was made (base)

vars == <<file, strict, mmap, raw, size, file_header, chunks, pc, walks, last>>

-----------------------------------------------------------------------------
(* Bounds of the model *)

MaxChunks == 2      \* chunk records in a generated file
MaxData   == 1      \* payload bytes of a generated chunk record
MaxWalks  == 2      \* process_chunks calls in one behaviour

-----------------------------------------------------------------------------
(* Constants of the program *)

None == [none |-> TRUE]

\* a signature constant whose last byte is mistyped
signature_mistyped == <<137, 80, 78, 71, 13, 10, 26, 13>>

_valid_signature == <<137, 80, 78, 71, 13, 10, 26, 10>>

_critical_chunks ==
    { <<73, 72, 68, 82>>,      \* IHDR
      <<80, 76, 84, 69>>,      \* PLTE
      <<73, 68, 65, 84>>,      \* IDAT
      <<73, 69, 78, 68>> }     \* IEND

_ancillary_chunks ==
    { <<98, 75, 71, 68>>,      \* bKGD
      <<99, 72, 82, 77>>,      \* cHRM
      <<103, 65, 77, 65>>,     \* gAMA
      <<104, 73, 83, 84>>,     \* hIST
      <<105, 67, 67, 80>>,     \* iCCP
      <<105, 84, 88, 116>>,    \* iTXt
      <<112, 72, 89, 115>>,    \* pHYs
      <<115, 66, 73, 84>>,     \* sBIT
      <<115, 80, 76, 84>>,     \* sPLT
      <<115, 82, 71, 66>>,     \* sRGB
      <<115, 84, 69, 82>>,     \* sTER
      <<116, 69, 88, 116>>,    \* tEXt
      <<116, 73, 77, 69>>,     \* tIME
      <<116, 82, 78, 83>>,     \* tRNS
      <<122, 84, 88, 116>> }   \* zTXt

_potential_chunks == _critical_chunks \cup _ancillary_chunks

-----------------------------------------------------------------------------
(* The mmap object and struct.unpack *)

\* mmap.seek(where) succeeds iff 0 <= where <= size
mmap_seek_ok(m, where) == where >= 0 /\ where <= Len(m.data)

mmap_seek(m, where) == [m EXCEPT !.pos = where]

\* a read that leaves the position alone when it reaches the end of the data
mmap_read_stalls_at_end(m, n) ==
    LET avail == Len(m.data) - m.pos
        k     == IF n < 0 \/ n > avail THEN avail ELSE n
    IN  [bytes |-> SubSeq(m.data, m.pos + 1, m.pos + k),
         m     |-> IF k = n THEN [m EXCEPT !.pos = @ + k] ELSE m]

\* mmap.read(n): the bytes from pos to min(pos + n, size); a request past the
\* end is silently shortened; the position advances by what was read.
mmap_read(m, n) ==
    LET avail == Len(m.data) - m.pos
        k     == IF n < 0 \/ n > avail THEN avail ELSE n
    IN  [bytes |-> SubSeq(m.data, m.pos + 1, m.pos + k),
         m     |-> [m EXCEPT !.pos = @ + k]]

\* a decoder that reads the four bytes least significant first
unpack_I_little_endian(b) == b[4] * 16777216 + b[3] * 65536 + b[2] * 256 + b[1]

\* struct.unpack('>I', b)[0] for a four-byte b (any other length raises).
\* A value of 2^31 or more is above the integers of the model checker and is
\* kept as its four bytes.
unpack_I(b) ==
    IF b[1] < 128
    THEN b[1] * 16777216 + b[2] * 65536 + b[3] * 256 + b[4]
    ELSE [u32 |-> b]

\* the byte count that read() is asked for: a length kept as its four bytes
\* is larger than every file of the model, as is the file's size plus one
read_count(m, b) == IF b[1] < 128 THEN unpack_I(b) ELSE Len(m.data) + 1

-----------------------------------------------------------------------------
(* PngFile.PngChunk *)

PngChunk(o, l, t, d, c) ==
    [offset |-> o, length |-> l, type |-> t, data |-> d, crc_claim |-> c]

-----------------------------------------------------------------------------
(* PngFile.extract_chunk *)

\* a decoder that accepts every type tag
type_check_skipped(st, t) == TRUE

\* if self.strict: assert(chunk.type in PngFile._potential_chunks)
type_check(st, t) == st => t \in _potential_chunks

\* a finally block that leaves the position where the reads left it
finally_without_seek(m, reset_pos) == m

\* finally: if reset_pos: self.mmap.seek(0)   (m is not None)
finally_reset(m, reset_pos) == IF reset_pos THEN mmap_seek(m, 0) ELSE m

\* The try block: [ok, exc, chunk, m], m the mmap object as the block left it
extract_try(m, st, chunk_offset) ==
    IF m = None
    THEN [ok |-> FALSE, exc |-> "AttributeError", chunk |-> None, m |-> m]
    ELSE IF ~mmap_seek_ok(m, chunk_offset)
    THEN [ok |-> FALSE, exc |-> "ValueError", chunk |-> None, m |-> m]
    ELSE LET r1 == mmap_read(mmap_seek(m, chunk_offset), 4)
         IN  IF Len(r1.bytes) # 4
             THEN [ok |-> FALSE, exc |-> "struct.error", chunk |-> None, m |-> r1.m]
             ELSE LET length == unpack_I(r1.bytes)
                      r2     == mmap_read(r1.m, 4)
                  IN  IF ~type_check(st, r2.bytes)
                      THEN [ok |-> FALSE, exc |-> "AssertionError",
                            chunk |-> None, m |-> r2.m]
                      ELSE LET r3 == mmap_read(r2.m, read_count(r2.m, r1.bytes))
                               r4 == mmap_read(r3.m, 4)
                           IN  [ok |-> TRUE, exc |-> "",
                                chunk |-> PngChunk(chunk_offset, length, r2.bytes,
                                                   r3.bytes, r4.bytes),
                                m |-> r4.m]

\* The whole method: [outcome, exc, value, m]
extract_chunk(m, st, chunk_offset, reset_pos) ==
    LET t == extract_try(m, st, chunk_offset)
        \* except: re-raise when strict, else return None
        handled == IF t.ok
                   THEN [outcome |-> "return", exc |-> "", value |-> t.chunk]
                   ELSE IF st
                   THEN [outcome |-> "raise", exc |-> t.exc, value |-> None]
                   ELSE [outcome |-> "return", exc |-> "", value |-> None]
    IN  \* finally: with self.mmap None the seek raises in place of the outcome
        IF reset_pos /\ t.m = None
        THEN [outcome |-> "raise", exc |-> "AttributeError", value |-> None, m |-> t.m]
        ELSE [outcome |-> handled.outcome, exc |-> handled.exc, value |-> handled.value,
              m |-> IF t.m = None THEN t.m ELSE finally_reset(t.m, reset_pos)]

-----------------------------------------------------------------------------
(* PngFile.validate_signature *)

\* PngFile._valid_signature == self.file_header (False for None, never raises)
validate_signature(header) == _valid_signature = header

-----------------------------------------------------------------------------
(* The files given to load_from_file *)

RECURSIVE pack_I_be(_, _)
\* the k low-order bytes of n, most significant first
pack_I_be(n, k) == IF k = 0 THEN <<>> ELSE Append(pack_I_be(n \div 256, k - 1), n % 256)

pack_I(n) == pack_I_be(n, 4)

\* the wire form of one chunk record
EncodeChunk(c) == pack_I(c.length) \o c.type \o c.data \o c.crc_claim

RECURSIVE EncodeAll(_)
EncodeAll(cs) == IF cs = <<>> THEN <<>> ELSE EncodeChunk(Head(cs)) \o EncodeAll(Tail(cs))

IHDR == <<73, 72, 68, 82>>
zzZZ == <<122, 122, 90, 90>>

InputCrc  == <<65, 66, 49, 50>>
InputData(l) == [i \in 1..l |-> 64 + i]

Record(l, t) == [length |-> l, type |-> t, data |-> InputData(l), crc_claim |-> InputCrc]

\* chunk records without their offset: a standardized tag with every payload
\* length, and a tag outside the standardized set with an empty payload
Records == { Record(l, IHDR) : l \in 0..MaxData } \cup { Record(0, zzZZ) }

RecordSeqs == UNION { [1..n -> Records] : n \in 0..MaxChunks }

Prefixes(s) == { SubSeq(s, 1, k) : k \in 0..Len(s) }

\* the signature with its i-th byte changed
MutatedSignature(i) == [_valid_signature EXCEPT ![i] = (@ + 1) % 256]

Files ==
    UNION { Prefixes(_valid_signature \o EncodeAll(cs)) : cs \in RecordSeqs }
    \cup { MutatedSignature(i) \o EncodeChunk(CHOOSE c \in Records : c.length = 0 /\ c.type = IHDR) :
           i \in 1..8 }

-----------------------------------------------------------------------------
(* The state machine *)

Call(op, outcome, exc, value, offset, reset_pos) ==
    [op |-> op, outcome |-> outcome, exc |-> exc, value |-> value,
     offset |-> offset, reset_pos |-> reset_pos, base |-> Len(chunks)]

\* PngFile.__init__
Init ==
    /\ file \in Files
    /\ strict \in BOOLEAN
    /\ mmap = None
    /\ raw = None
    /\ size = None
    /\ file_header = None
    /\ chunks = <<>>
    /\ pc = "idle"
    /\ walks = 0
    /\ last = [op |-> "__init__", outcome |-> "return", exc |-> "", value |-> None,
               offset |-> 0, reset_pos |-> FALSE, base |-> 0]

\* PngFile.load_from_file: mmap.mmap raises ValueError on an empty file
load_from_file ==
    /\ pc = "idle"
    /\ IF Len(file) = 0
       THEN /\ last' = Call("load_from_file", "raise", "ValueError", None, 0, FALSE)
            /\ UNCHANGED <<mmap, raw, size, file_header>>
       ELSE /\ mmap' = [data |-> file, pos |-> 0]
            /\ size' = Len(file)
            /\ raw' = file
            /\ file_header' = SubSeq(file, 1, IF Len(file) < 8 THEN Len(file) ELSE 8)
            /\ last' = Call("load_from_file", "return", "", None, 0, FALSE)
    /\ UNCHANGED <<file, strict, chunks, pc, walks>>

ValidateSignature ==
    /\ pc = "idle"
    /\ last' = Call("validate_signature", "return", "",
                    validate_signature(file_header), 0, FALSE)
    /\ UNCHANGED <<file, strict, mmap, raw, size, file_header, chunks, pc, walks>>

\* the offsets at which the first and the second chunk record of a generated
\* file begin
ChunkStarts ==
    { Len(_valid_signature) } \cup
    { Len(_valid_signature) + Len(EncodeChunk(c)) : c \in Records }

\* the offsets extract_chunk is called with: the start of the file, the starts
\* of chunk records, and the last byte, the end and one past the end of the file
Offsets ==
    ({0} \cup ChunkStarts \cup {Len(file) - 1, Len(file), Len(file) + 1})
    \cap (0 .. (Len(file) + 1))

\* an extract_chunk that also appends what it decoded to self.chunks
ExtractChunkAppending ==
    /\ pc = "idle"
    /\ \E chunk_offset \in Offsets, reset_pos \in BOOLEAN :
          LET r == extract_chunk(mmap, strict, chunk_offset, reset_pos)
          IN  /\ mmap' = r.m
              /\ chunks' = Append(chunks, r.value)
              /\ last' = Call("extract_chunk", r.outcome, r.exc, r.value,
                              chunk_offset, reset_pos)
    /\ UNCHANGED <<file, strict, raw, size, file_header, pc, walks>>

ExtractChunk ==
    /\ pc = "idle"
    /\ \E chunk_offset \in Offsets, reset_pos \in BOOLEAN :
          LET r == extract_chunk(mmap, strict, chunk_offset, reset_pos)
          IN  /\ mmap' = r.m
              /\ last' = Call("extract_chunk", r.outcome, r.exc, r.value,
                              chunk_offset, reset_pos)
    /\ UNCHANGED <<file, strict, raw, size, file_header, chunks, pc, walks>>

\* a walk that keeps only the chunk it decoded last
chunk_replace(cs, c) == <<c>>

\* a walk that puts each chunk at the front of the list
chunk_prepend(cs, c) == <<c>> \o cs

\* self.chunks.append(chunk)
chunk_append(cs, c) == Append(cs, c)

\* a walk that starts on the last byte of the signature
signature_length_less_one == Len(_valid_signature) - 1

\* len(PngFile._valid_signature), the offset the walk starts from
signature_length == Len(_valid_signature)

\* process_chunks up to its while loop: self.mmap.seek(8), outside the try
ProcessChunksBegin ==
    /\ pc = "idle"
    /\ walks < MaxWalks
    /\ walks' = walks + 1
    /\ IF mmap = None
       THEN /\ last' = Call("process_chunks", "raise", "AttributeError", None, 0, FALSE)
            /\ UNCHANGED <<mmap, pc>>
       ELSE IF ~mmap_seek_ok(mmap, signature_length)
       THEN /\ last' = Call("process_chunks", "raise", "ValueError", None, 0, FALSE)
            /\ UNCHANGED <<mmap, pc>>
       ELSE /\ mmap' = mmap_seek(mmap, signature_length)
            /\ pc' = "loop"
            /\ last' = Call("process_chunks", "running", "", None, 0, FALSE)
    /\ UNCHANGED <<file, strict, raw, size, file_header, chunks>>

\* a walk that, when it aborts, drops the entries it had appended
ProcessChunksLoopRollingBack ==
    /\ pc = "loop"
    /\ IF mmap.pos < Len(mmap.data)
       THEN LET r == extract_chunk(mmap, strict, mmap.pos, FALSE)
            IN  IF r.outcome = "raise"
                THEN /\ mmap' = mmap_seek(r.m, 0)
                     /\ last' = [last EXCEPT !.outcome = "raise", !.exc = r.exc]
                     /\ pc' = "idle"
                     /\ chunks' = SubSeq(chunks, 1, last.base)
                ELSE /\ chunks' = chunk_append(chunks, r.value)
                     /\ mmap' = r.m
                     /\ UNCHANGED <<pc, last>>
       ELSE /\ mmap' = mmap_seek(mmap, 0)
            /\ last' = [last EXCEPT !.outcome = "return", !.value = (chunks # <<>>)]
            /\ pc' = "idle"
            /\ UNCHANGED chunks
    /\ UNCHANGED <<file, strict, raw, size, file_header, walks>>

\* one evaluation of the while condition and what follows it
ProcessChunksLoop ==
    /\ pc = "loop"
    /\ IF mmap.pos < Len(mmap.data)
       THEN LET r == extract_chunk(mmap, strict, mmap.pos, FALSE)
            IN  IF r.outcome = "raise"
                THEN \* except (re-raise when strict), then finally: seek(0)
                     /\ mmap' = mmap_seek(r.m, 0)
                     /\ IF strict
                        THEN last' = [last EXCEPT !.outcome = "raise", !.exc = r.exc]
                        ELSE last' = [last EXCEPT !.outcome = "return",
                                                  !.value = (chunks # <<>>)]
                     /\ pc' = "idle"
                     /\ UNCHANGED chunks
                ELSE /\ chunks' = chunk_append(chunks, r.value)
                     /\ mmap' = r.m
                     /\ UNCHANGED <<pc, last>>
       ELSE \* loop left normally: finally seek(0), then return bool(self.chunks)
            /\ mmap' = mmap_seek(mmap, 0)
            /\ last' = [last EXCEPT !.outcome = "return", !.value = (chunks # <<>>)]
            /\ pc' = "idle"
            /\ UNCHANGED chunks
    /\ UNCHANGED <<file, strict, raw, size, file_header, walks>>

Next ==
    \/ load_from_file
    \/ ValidateSignature
    \/ ExtractChunk
    \/ ProcessChunksBegin
    \/ ProcessChunksLoop

Spec == Init /\ [][Next]_vars

-----------------------------------------------------------------------------
(* Vocabulary of the properties *)

\* a walk has returned or raised, and it was the first walk of the container
FirstWalkDone ==
    pc = "idle" /\ last.op = "process_chunks" /\ walks = 1 /\ mmap # None

RECURSIVE Laid(_, _)
\* the chunk records cs as chunks laid out contiguously from offset o
Laid(cs, o) ==
    IF cs = <<>> THEN <<>>
    ELSE <<PngChunk(o, Head(cs).length, Head(cs).type, Head(cs).data,
                    Head(cs).crc_claim)>>
         \o Laid(Tail(cs), o + 12 + Head(cs).length)

Standardized(cs) == \A i \in 1..Len(cs) : cs[i].type \in _potential_chunks

Front(s) == SubSeq(s, 1, Len(s) - 1)

IsPrefix(p, s) == Len(p) <= Len(s) /\ SubSeq(s, 1, Len(p)) = p

\* the file made of the signature and the records cs
WellFormed(cs) == _valid_signature \o EncodeAll(cs)

Adjacent(l) ==
    /\ l[1].offset = 8
    /\ \A k \in 1..(Len(l) - 1) : l[k + 1].offset = l[k].offset + 12 + l[k].length

-----------------------------------------------------------------------------
(* C1: on a file made of the signature and n >= 1 complete chunk records   *)
(* (standardized tags when strict), the first walk returns true and the    *)
(* chunk list is exactly those records in file order, the first at offset  *)
(* 8 and each next one 12 + length bytes after the one before.             *)
C1_WellFormedWalk ==
    FirstWalkDone =>
        \A cs \in RecordSeqs :
            (/\ Len(cs) >= 1
             /\ mmap.data = WellFormed(cs)
             /\ strict => Standardized(cs))
            => /\ last.outcome = "return"
               /\ last.value = TRUE
               /\ chunks = Laid(cs, 8)
               /\ Adjacent(chunks)

C1_Witness ==
    /\ FirstWalkDone
    /\ strict
    /\ last.outcome = "return"
    /\ Len(chunks) = 2
    /\ chunks[1].length # chunks[2].length
    /\ \E cs \in RecordSeqs : mmap.data = WellFormed(cs)

(* C2: extract_chunk never returns a chunk whose declared length runs past *)
(* the end of the buffer: every chunk it returns has a 4-byte type, data   *)
(* of exactly `length` bytes and a 4-byte trailing checksum field.         *)
C2_ReturnedChunkComplete ==
    (last.op = "extract_chunk" /\ last.outcome = "return" /\ last.value # None)
    => /\ Len(last.value.crc_claim) = 4
       /\ Len(last.value.type) = 4
       /\ Len(last.value.data) = last.value.length

(* C3: in strict mode, on a file of standardized chunk records whose last  *)
(* byte is missing, the walk raises.                                       *)
C3_StrictTruncatedRaises ==
    (FirstWalkDone /\ strict) =>
        \A cs \in RecordSeqs :
            (Len(cs) >= 1 /\ Standardized(cs) /\ mmap.data = Front(WellFormed(cs)))
            => last.outcome = "raise"

(* C4: in lenient mode, on a file of n > 1 chunk records whose last byte   *)
(* is missing, the first walk returns true and the chunk list is exactly   *)
(* the first n - 1 records.                                                *)
C4_LenientTruncatedKeepsFront ==
    (FirstWalkDone /\ ~strict) =>
        \A cs \in RecordSeqs :
            (Len(cs) > 1 /\ mmap.data = Front(WellFormed(cs)))
            => /\ last.outcome = "return"
               /\ last.value = TRUE
               /\ chunks = Laid(Front(cs), 8)

(* C5: a strict container never holds a chunk whose tag is outside the     *)
(* standardized set; a strict walk that reaches a complete chunk with such *)
(* a tag raises and appends neither that chunk nor a later one; a lenient  *)
(* walk appends that chunk.                                                *)
C5_StrictRejectsUnknownTag ==
    /\ strict => \A i \in 1..Len(chunks) :
                    chunks[i] # None /\ chunks[i].type \in _potential_chunks
    /\ FirstWalkDone =>
          \A cs \in RecordSeqs :
              (/\ Len(cs) >= 1
               /\ IsPrefix(WellFormed(cs), mmap.data)
               /\ cs[Len(cs)].type \notin _potential_chunks
               /\ strict => Standardized(Front(cs)))
              => IF strict
                 THEN last.outcome = "raise" /\ chunks = Laid(Front(cs), 8)
                 ELSE /\ last.outcome = "return"
                      /\ Len(chunks) >= Len(cs)
                      /\ SubSeq(chunks, 1, Len(cs)) = Laid(cs, 8)

C5_Witness ==
    /\ FirstWalkDone
    /\ strict
    /\ last.outcome = "raise"
    /\ last.exc = "AssertionError"
    /\ Len(chunks) = 1
    /\ \E cs \in RecordSeqs :
          /\ Len(cs) = 2
          /\ mmap.data = WellFormed(cs)
          /\ cs[2].type \notin _potential_chunks

(* C6: load_from_file fails on every file shorter than 8 bytes.            *)
C6_ShortFileRejected ==
    (last.op = "load_from_file" /\ Len(file) < 8) => last.outcome = "raise"

(* C7: validate_signature always returns, and returns true exactly when a  *)
(* file has been loaded whose first 8 bytes are 89 50 4E 47 0D 0A 1A 0A;   *)
(* before a load, with a shorter header or with one byte of the signature  *)
(* changed it returns false.                                               *)
PngMagic == <<137, 80, 78, 71, 13, 10, 26, 10>>

C7_SignatureExact ==
    last.op = "validate_signature" =>
        /\ last.outcome = "return"
        /\ last.value = (/\ mmap # None
                         /\ Len(file) >= 8
                         /\ \A i \in 1..8 : file[i] = PngMagic[i])
        /\ (mmap = None \/ Len(file_header) < 8) => last.value = FALSE
        /\ \A i \in 1..8 : (mmap # None /\ [PngMagic EXCEPT ![i] = (@ + 1) % 256] = file_header)
                              => last.value = FALSE

C7_Witness ==
    /\ last.op = "validate_signature"
    /\ last.value = TRUE
    /\ Len(file) > 8

(* C8: when the wire form of a chunk record (standardized tag when strict) *)
(* lies wholly inside the buffer at offset o, extract_chunk(o) returns the *)
(* chunk with offset o and exactly the record's four fields.               *)
C8_RoundTrip ==
    (last.op = "extract_chunk" /\ mmap # None) =>
        \A c \in Records :
            (/\ last.offset + Len(EncodeChunk(c)) <= Len(mmap.data)
             /\ SubSeq(mmap.data, last.offset + 1, last.offset + Len(EncodeChunk(c)))
                    = EncodeChunk(c)
             /\ strict => c.type \in _potential_chunks)
            => /\ last.outcome = "return"
               /\ last.value = PngChunk(last.offset, c.length, c.type, c.data,
                                        c.crc_claim)

C8_Witness ==
    /\ mmap # None
    /\ last.op = "extract_chunk"
    /\ last.outcome = "return"
    /\ last.offset > 8
    /\ last.offset + 13 <= Len(mmap.data)
    /\ last.value = PngChunk(last.offset, 1, IHDR, InputData(1), InputCrc)

(* C9, as amended: on a loaded container a call of extract_chunk with      *)
(* reset_pos=True, whether it returns a chunk, returns None or raises,     *)
(* leaves the read cursor at position 0.                                   *)
C9_ResetLeavesCursorAtZero ==
    (last.op = "extract_chunk" /\ last.reset_pos /\ mmap # None) => mmap.pos = 0

(* C9, as stated: a call of extract_chunk with reset_pos=True leaves the   *)
(* read cursor at the position it had immediately before the call.         *)
C9_ResetRestoresCursor ==
    [][(mmap # None /\ last'.op = "extract_chunk" /\ last'.reset_pos)
       => mmap'.pos = mmap.pos]_vars

C9_Witness ==
    /\ last.op = "extract_chunk"
    /\ last.reset_pos
    /\ mmap # None
    /\ last.outcome = "raise"
    /\ last.offset > 0

(* C10: in lenient mode process_chunks on a loaded container returns a     *)
(* boolean and never raises.                                               *)
C10_LenientWalkReturns ==
    (pc = "idle" /\ last.op = "process_chunks" /\ ~strict /\ mmap # None)
    => last.outcome = "return" /\ last.value \in BOOLEAN

-----------------------------------------------------------------------------
(* Vocabulary of the properties about one walk among several *)

\* a walk has returned or raised on a loaded container
WalkDone == pc = "idle" /\ last.op = "process_chunks" /\ mmap # None

\* the entries the last call of process_chunks added to the list
Collected == SubSeq(chunks, last.base + 1, Len(chunks))

\* the entries of l that are chunks
Decoded(l) == SelectSeq(l, LAMBDA c : c # None)

\* l is n copies of p, one after the other
Copies(l, p, n) ==
    /\ Len(l) = n * Len(p)
    /\ \A i \in 1..Len(l) : l[i] = p[((i - 1) % Len(p)) + 1]

(* C11: a call of process_chunks that returns returns true if and only if  *)
(* that walk collected at least one successfully decoded chunk.            *)
C11_TrueIffChunkCollected ==
    (WalkDone /\ last.outcome = "return")
    => (last.value = TRUE <=> Decoded(Collected) # <<>>)

(* C12: immediately after a load the chunk list is empty.                  *)
C12_LoadResetsChunks ==
    (last.op = "load_from_file" /\ last.outcome = "return") => chunks = <<>>

(* C13: the chunk list only grows at its end, and when a call of           *)
(* process_chunks returns the list is a whole number of copies of what     *)
(* that call collected: two copies after the second of two walks on a      *)
(* loaded container, and so on; on a well-formed file each call collects  *)
(* the file's records in order.                                            *)
C13_WalksAccumulate ==
    /\ [][IsPrefix(chunks, chunks')]_vars
    /\ [](  (WalkDone /\ last.outcome = "return")
            => /\ \E n \in 1..walks : Copies(chunks, Collected, n)
               /\ \A cs \in RecordSeqs :
                      (mmap.data = WellFormed(cs) /\ (strict => Standardized(cs)))
                      => Collected = Laid(cs, 8) )

C13_Witness ==
    /\ WalkDone
    /\ last.outcome = "return"
    /\ walks = 2
    /\ Len(Collected) = 2
    /\ Len(chunks) = 4
    /\ chunks[1] # chunks[2]
    /\ chunks[3] = chunks[1]

(* C14: in lenient mode every element of the chunk list is a decoded       *)
(* chunk, never the None of a failed decode.                               *)
C14_NoFailureMarkerInList ==
    ~strict => \A i \in 1..Len(chunks) : chunks[i] # None

(* C15: after a single walk on a freshly loaded container, whatever the    *)
(* file and the mode, the first decoded chunk has offset 8 and each next   *)
(* decoded chunk begins 12 + length bytes after the one before it; a None  *)
(* entry can only be the last entry of the list.                           *)
C15_AdjacencyAlways ==
    FirstWalkDone =>
        /\ Decoded(chunks) # <<>> => Adjacent(Decoded(chunks))
        /\ \A i \in 1..(Len(chunks) - 1) : chunks[i] # None

C15_Witness ==
    /\ FirstWalkDone
    /\ ~strict
    /\ Len(chunks) = 2
    /\ chunks[2] # None
    /\ chunks[1].length = 1
    /\ Len(chunks[2].crc_claim) < 4
    /\ chunks[2].offset = 21

(* C16: while process_chunks is in its loop every iteration either moves   *)
(* the read cursor strictly forward, staying inside the buffer, or ends    *)
(* the loop; the entries a walk has appended never outnumber the bytes of  *)
(* the buffer, so the walk ends after at most that many iterations.        *)
C16_WalkTerminates ==
    /\ [][pc = "loop" => \/ pc' = "idle"
                         \/ /\ mmap'.pos > mmap.pos
                            /\ mmap'.pos <= Len(mmap'.data)]_vars
    /\ [](pc = "loop" => /\ mmap.pos <= Len(mmap.data)
                         /\ Len(chunks) - last.base <= Len(mmap.data))

C16_Witness ==
    /\ pc = "loop"
    /\ ~strict
    /\ Len(chunks) - last.base = 1
    /\ chunks[Len(chunks)] = None
    /\ mmap.pos = Len(mmap.data)

(* C17: a call of extract_chunk, with any offset and reset flag, in either  *)
(* mode, succeeding or failing, leaves the chunk list, the buffer, the     *)
(* cached header and the strict flag as they were; validate_signature      *)
(* leaves those and the read cursor as they were.                          *)
C17_QueriesChangeNothing ==
    [][ /\ last'.op = "extract_chunk"
           => /\ chunks' = chunks
              /\ raw' = raw
              /\ size' = size
              /\ file_header' = file_header
              /\ strict' = strict
              /\ IF mmap = None THEN mmap' = None
                 ELSE mmap' # None /\ mmap'.data = mmap.data
        /\ last'.op = "validate_signature"
           => /\ chunks' = chunks
              /\ raw' = raw
              /\ size' = size
              /\ file_header' = file_header
              /\ strict' = strict
              /\ mmap' = mmap ]_vars

C17_Witness ==
    /\ last.op = "extract_chunk"
    /\ ~last.reset_pos
    /\ last.outcome = "return"
    /\ last.value # None
    /\ Len(chunks) = 2
    /\ mmap.pos > 8

(* C18: the read cursor is at position 0 after a load, after every call of *)
(* process_chunks, returning or raising, and after every call of           *)
(* extract_chunk made with reset_pos=True.                                 *)
C18_CursorAtZeroAfterCalls ==
    (/\ mmap # None
     /\ pc = "idle"
     /\ \/ last.op = "load_from_file" /\ last.outcome = "return"
        \/ last.op = "process_chunks"
        \/ last.op = "extract_chunk" /\ last.reset_pos)
    => mmap.pos = 0

(* C19: when a strict walk aborts, the chunks it decoded before the abort  *)
(* are in the list after the entries the list had when the walk began: the *)
(* walk added exactly the complete standardized records that precede the   *)
(* point of failure.                                                       *)
C19_AbortKeepsEarlierChunks ==
    (WalkDone /\ strict /\ last.outcome = "raise" /\ Len(mmap.data) >= 8) =>
        \E cs \in RecordSeqs :
            /\ Standardized(cs)
            /\ IsPrefix(WellFormed(cs), mmap.data)
            /\ ~ \E c \in Records :
                    /\ c.type \in _potential_chunks
                    /\ IsPrefix(WellFormed(cs \o <<c>>), mmap.data)
            /\ Len(chunks) = last.base + Len(cs)
            /\ Collected = Laid(cs, 8)

C19_Witness ==
    /\ WalkDone
    /\ strict
    /\ last.outcome = "raise"
    /\ walks = 2
    /\ last.base = 1
    /\ Len(chunks) = 2
    /\ chunks[2].type = IHDR

=============================================================================
